---------------------------- MODULE Spec2Model ----------------------------
(***************************************************************************)
(* A model of src/app_pellet.py: the multi-file CSV loader                 *)
(* (load_and_preprocess_data), the numeric clean-up of the Standard and    *)
(* Actual columns, the single-day KPI summary, the date-range aggregation  *)
(* and the main() request handler with its st.cache_data memoization.      *)
(*                                                                         *)
(* Text is a sequence of one-character strings, so that the regular        *)
(* expressions of the source act on characters.  A first line, a file name *)
(* and a column name are sequences of tokens (a label, white space, a      *)
(* comma, a date in one of two written forms, ...), each with the          *)
(* characters it is written with; dateutil's parser is run on those        *)
(* characters.  A float cell is held as the decimal numeral m * 10^e it    *)
(* prints as; the KPI arithmetic is done on its binary64 value.            *)
(***************************************************************************)
EXTENDS Integers, Sequences, FiniteSets, TLC

VARIABLES
    fs,            \* the data directory: [exists, listing]
    cache,         \* st.cache_data's store for load_and_preprocess_data: <<>> or <<result>>
    all_data,      \* the collection the current request holds (after its analysis ran)
    loaded,        \* history: the collection as load_and_preprocess_data returned it
    recomputed,    \* history: whether the body of the loader ran in the last request
    ui,            \* what the last request put on the page
    cell,          \* a Standard/Actual value under clean-up
    norm1,         \* the value after one clean-up
    norm2,         \* the value after a second clean-up
    pc             \* position of the running scenario

vars == <<fs, cache, all_data, loaded, recomputed, ui, cell, norm1, norm2, pc>>

-----------------------------------------------------------------------------
(* Bounds of the model *)

MaxLen == 7        \* longest text drawn as a cell value
MaxMant == 20      \* largest mantissa of a float drawn as a cell value
MaxExp == 6        \* largest |decimal exponent| of a float drawn as a cell value
MaxDate == 2       \* the reports are of the days 1..MaxDate after 2024-03-10
MaxFiles == 3      \* most files of a directory the loader is run on
MaxDirFiles == 2   \* most files of the directory of a session of requests
MaxRows == 3       \* most rows of a table given to the single-day analysis

-----------------------------------------------------------------------------
(* Sequences *)

RECURSIVE Zeros(_)
Zeros(n) ==
    IF n <= 0 THEN <<>> ELSE <<"0">> \o Zeros(n - 1)

RECURSIVE Pow10(_)
Pow10(n) ==
    IF n <= 0 THEN 1 ELSE 10 * Pow10(n - 1)

-----------------------------------------------------------------------------
(* Floats: [nan, neg, m, e] is (-1)^neg * m * 10^e, m without trailing zeros *)

NaN ==
    [nan |-> TRUE, neg |-> FALSE, m |-> 0, e |-> 0]

RECURSIVE MkFloat(_, _, _)
MkFloat(neg, m, e) ==
    IF m = 0 THEN [nan |-> FALSE, neg |-> neg, m |-> 0, e |-> 0]
    ELSE IF m % 10 = 0 THEN MkFloat(neg, m \div 10, e + 1)
    ELSE [nan |-> FALSE, neg |-> neg, m |-> m, e |-> e]

(* Cells of a table: text, a number (float64, NaN for a missing value) or a date *)
Str(s) ==
    [k |-> "str", s |-> s, f |-> NaN, d |-> 0]

Num(f) ==
    [k |-> "num", s |-> <<>>, f |-> f, d |-> 0]

DateCell(d) ==
    [k |-> "date", s |-> <<>>, f |-> NaN, d |-> d]

Missing ==
    Num(NaN)

-----------------------------------------------------------------------------
(* str(x) of a float: Python's shortest repr, fixed notation for            *)
(* 1e-4 <= |x| < 1e16 and scientific notation outside.                      *)

DigitChar ==
    <<"0", "1", "2", "3", "4", "5", "6", "7", "8", "9">>

IsDigit(c) ==
    \E i \in 1..10 : DigitChar[i] = c

DigitVal(c) ==
    (CHOOSE i \in 1..10 : DigitChar[i] = c) - 1

RECURSIVE Digits(_)
Digits(n) ==
    IF n < 10 THEN <<DigitChar[n + 1]>>
    ELSE Digits(n \div 10) \o <<DigitChar[(n % 10) + 1]>>

RECURSIVE IntOf(_)
IntOf(ds) ==
    IF ds = <<>> THEN 0
    ELSE 10 * IntOf(SubSeq(ds, 1, Len(ds) - 1)) + DigitVal(ds[Len(ds)])

FloatRepr(f) ==
    IF f.nan THEN <<"n", "a", "n">>
    ELSE
      LET D     == Digits(f.m)
          n     == Len(D)
          decpt == n + f.e
          x     == decpt - 1
          sign  == IF f.neg THEN <<"-">> ELSE <<>>
          body  ==
            IF f.m = 0 THEN <<"0", ".", "0">>
            ELSE IF decpt > -4 /\ decpt <= 16 THEN
                   IF decpt <= 0 THEN <<"0", ".">> \o Zeros(-decpt) \o D
                   ELSE IF decpt >= n THEN D \o Zeros(decpt - n) \o <<".", "0">>
                   ELSE SubSeq(D, 1, decpt) \o <<".">> \o SubSeq(D, decpt + 1, n)
            ELSE <<D[1]>>
                 \o (IF n > 1 THEN <<".">> \o SubSeq(D, 2, n) ELSE <<>>)
                 \o <<"e">>
                 \o (IF x < 0 THEN <<"-">> ELSE <<"+">>)
                 \o (LET a == IF x < 0 THEN -x ELSE x
                     IN IF a < 10 THEN <<"0">> \o Digits(a) ELSE Digits(a))
      IN sign \o body

(* .astype(str) of one cell *)
AsTypeStr(c) ==
    CASE c.k = "str" -> c.s
      [] c.k = "num" -> FloatRepr(c.f)

-----------------------------------------------------------------------------
(* .str.extract of the pattern "digits, an optional dot, digits": the first  *)
(* match in the text; no match gives the missing value.                      *)

RECURSIVE DigitRun(_, _)
DigitRun(s, i) ==
    IF i <= Len(s) /\ IsDigit(s[i]) THEN 1 + DigitRun(s, i + 1) ELSE 0

StrExtract(s) ==
    LET starts == {i \in 1..Len(s) : IsDigit(s[i])}
    IN IF starts = {} THEN [found |-> FALSE, int |-> <<>>, frac |-> <<>>]
       ELSE
         LET i   == CHOOSE a \in starts : \A b \in starts : a <= b
             n1  == DigitRun(s, i)
             j   == i + n1
             dot == j <= Len(s) /\ s[j] = "."
             n2  == IF dot THEN DigitRun(s, j + 1) ELSE 0
         IN [found |-> TRUE,
             int   |-> SubSeq(s, i, j - 1),
             frac  |-> SubSeq(s, j + 1, j + n2)]

(* .astype(float) of the extracted numeral *)
AsTypeFloat(x) ==
    IF ~x.found THEN NaN
    ELSE MkFloat(FALSE, IntOf(x.int \o x.frac), -Len(x.frac))

(* df[col].astype(str).str.extract(pattern).astype(float), on one cell *)
CleanNumeric(c) ==
    Num(AsTypeFloat(StrExtract(AsTypeStr(c))))

-----------------------------------------------------------------------------
(* Tokens of a first line, a file name or a column name, and the characters *)
(* each is written with.  A day d of the reports is the calendar day        *)
(* 2024-03-10 plus d days.                                                  *)
(*   "date"      2024-03-1d         (year first, dashes)                    *)
(*   "longdate"  1d March 2024      (day, month name, year)                 *)
(*   "huge"      08335394550        (a numeral no C int holds)              *)
(*   "text"      report_            (a word dateutil knows nothing of)      *)
(*   "ws" one blank, "comma" one comma, ".csv" and ".txt" the extensions,   *)
(*   "Date:", "date:", "DATE:" the label in three spellings.                *)

Tok(t) ==
    [t |-> t, d |-> 0]

DateTok(d) ==
    [t |-> "date", d |-> d]

LongDateTok(d) ==
    [t |-> "longdate", d |-> d]

TwoDigits(n) ==
    <<DigitChar[(n \div 10) + 1], DigitChar[(n % 10) + 1]>>

Spell(x) ==
    CASE x.t = "ws"       -> <<" ">>
      [] x.t = "comma"    -> <<",">>
      [] x.t = "date"     -> <<"2", "0", "2", "4", "-", "0", "3", "-">> \o TwoDigits(10 + x.d)
      [] x.t = "longdate" -> TwoDigits(10 + x.d) \o <<" ", "M", "a", "r", "c", "h", " ", "2", "0", "2", "4">>
      [] x.t = "huge"     -> <<"0", "8", "3", "3", "5", "3", "9", "4", "5", "5", "0">>
      [] x.t = ".csv"     -> <<".", "c", "s", "v">>
      [] x.t = ".txt"     -> <<".", "t", "x", "t">>
      [] x.t = "Date:"    -> <<"D", "a", "t", "e", ":">>
      [] x.t = "date:"    -> <<"d", "a", "t", "e", ":">>
      [] x.t = "DATE:"    -> <<"D", "A", "T", "E", ":">>
      [] OTHER            -> <<"r", "e", "p", "o", "r", "t", "_">>

RECURSIVE SpellAll(_)
SpellAll(text) ==
    IF text = <<>> THEN <<>> ELSE Spell(Head(text)) \o SpellAll(Tail(text))

IsWs(x) ==
    x.t = "ws"

(* 'Date:' under re.IGNORECASE *)
IsDateLabel(x) ==
    x.t \in {"Date:", "date:", "DATE:"}

RECURSIVE WsRun(_, _)
WsRun(s, i) ==
    IF i <= Len(s) /\ IsWs(s[i]) THEN 1 + WsRun(s, i + 1) ELSE 0

RECURSIVE NonCommaRun(_, _)
NonCommaRun(s, i) ==
    IF i <= Len(s) /\ s[i].t # "comma" THEN 1 + NonCommaRun(s, i + 1) ELSE 0

(* str.strip() *)
RECURSIVE Strip(_)
Strip(s) ==
    IF s = <<>> THEN s
    ELSE IF IsWs(s[1]) THEN Strip(Tail(s))
    ELSE IF IsWs(s[Len(s)]) THEN Strip(SubSeq(s, 1, Len(s) - 1))
    ELSE s

(* re.search(r'Date:\s*([^\,]+)', first_line, re.IGNORECASE) at the label in  *)
(* position p: the white space is skipped greedily and group 1 runs to the  *)
(* next comma; when nothing but a comma or the end follows the white space, *)
(* the pattern backtracks and group 1 is the last piece of white space.     *)
DateMatchAt(line, p) ==
    LET w  == WsRun(line, p + 1)
        g  == p + 1 + w
        n  == NonCommaRun(line, g)
    IN IF n > 0 THEN [found |-> TRUE, group |-> SubSeq(line, g, g + n - 1)]
       ELSE IF w > 0 THEN [found |-> TRUE, group |-> <<line[g - 1]>>]
       ELSE [found |-> FALSE, group |-> <<>>]

DateSearch(line) ==
    LET hits == {p \in 1..Len(line) : IsDateLabel(line[p]) /\ DateMatchAt(line, p).found}
    IN IF hits = {} THEN [found |-> FALSE, group |-> <<>>]
       ELSE DateMatchAt(line, CHOOSE p \in hits : \A q \in hits : p <= q)

-----------------------------------------------------------------------------
(* dateutil.parser.parse, as parser.parse(text) and                          *)
(* parser.parse(text, fuzzy=True) run it: the lexer (_timelex) on the        *)
(* characters, then the parser (_parse, _parse_numeric_token, _ymd and       *)
(* _build_naive) on the lexemes.  Of the words dateutil knows, the texts of  *)
(* the model hold the month name March only; they hold no weekday, no am/pm  *)
(* mark, no h/m/s unit, no jump word and no numeral followed by a colon, so  *)
(* the branches for those are left out.                                      *)

Letters ==
    {"a", "b", "c", "d", "e", "f", "g", "h", "i", "j", "k", "l", "m",
     "n", "o", "p", "q", "r", "s", "t", "u", "v", "w", "x", "y", "z",
     "A", "B", "C", "D", "E", "F", "G", "H", "I", "J", "K", "L", "M",
     "N", "O", "P", "Q", "R", "S", "T", "U", "V", "W", "X", "Y", "Z"}

UpperLetters ==
    {"A", "B", "C", "D", "E", "F", "G", "H", "I", "J", "K", "L", "M",
     "N", "O", "P", "Q", "R", "S", "T", "U", "V", "W", "X", "Y", "Z"}

IsWord(c) ==
    c \in Letters

IsSpace(c) ==
    c = " "

CountOf(s, c) ==
    Cardinality({i \in 1..Len(s) : s[i] = c})

(* _timelex.get_token from the second character of a token on: the token    *)
(* grows while the characters fit the state ('a' a word, '0' a numeral,     *)
(* 'a.' and '0.' the same with a dot or a comma seen).                      *)
RECURSIVE LexScan(_, _, _, _, _)
LexScan(s, pos, state, token, seenletters) ==
    LET stop == [token |-> token, pos |-> pos, state |-> state, seenletters |-> seenletters]
        c    == s[pos]
        last == token[Len(token)]
    IN IF pos > Len(s) THEN stop
       ELSE CASE state = "a" ->
                   IF IsWord(c) THEN LexScan(s, pos + 1, "a", Append(token, c), TRUE)
                   ELSE IF c = "." THEN LexScan(s, pos + 1, "a.", Append(token, c), TRUE)
                   ELSE [stop EXCEPT !.seenletters = TRUE]
              [] state = "0" ->
                   IF IsDigit(c) THEN LexScan(s, pos + 1, "0", Append(token, c), seenletters)
                   ELSE IF c = "." \/ (c = "," /\ Len(token) >= 2)
                     THEN LexScan(s, pos + 1, "0.", Append(token, c), seenletters)
                   ELSE stop
              [] state = "a." ->
                   IF c = "." \/ IsWord(c) THEN LexScan(s, pos + 1, "a.", Append(token, c), TRUE)
                   ELSE IF IsDigit(c) /\ last = "." THEN LexScan(s, pos + 1, "0.", Append(token, c), TRUE)
                   ELSE [stop EXCEPT !.seenletters = TRUE]
              [] OTHER ->
                   IF c = "." \/ IsDigit(c) THEN LexScan(s, pos + 1, "0.", Append(token, c), seenletters)
                   ELSE IF IsWord(c) /\ last = "." THEN LexScan(s, pos + 1, "a.", Append(token, c), seenletters)
                   ELSE stop

(* re.compile("([.,])").split(token): the pieces between dots and commas    *)
(* and the dots and commas themselves; the empty pieces are dropped.        *)
RECURSIVE SplitDecimal(_, _)
SplitDecimal(token, piece) ==
    LET done == IF piece = <<>> THEN <<>> ELSE <<piece>>
    IN IF token = <<>> THEN done
       ELSE IF Head(token) \in {".", ","} THEN done \o <<<<Head(token)>>>> \o SplitDecimal(Tail(token), <<>>)
       ELSE SplitDecimal(Tail(token), Append(piece, Head(token)))

(* the end of get_token: a token of words and dots, or one that ends in a   *)
(* dot or a comma, is broken up; a comma inside a numeral is a decimal dot. *)
LexEmit(r) ==
    IF r.state \in {"a.", "0."}
       /\ (r.seenletters \/ CountOf(r.token, ".") > 1 \/ r.token[Len(r.token)] \in {".", ","})
      THEN SplitDecimal(r.token, <<>>)
    ELSE IF r.state = "0." /\ CountOf(r.token, ".") = 0
      THEN <<[i \in 1..Len(r.token) |-> IF r.token[i] = "," THEN "." ELSE r.token[i]]>>
    ELSE <<r.token>>

(* _timelex.get_token from position pos: the token, the position after it, *)
(* the state and whether letters were seen                                  *)
GetToken(s, pos) ==
    IF IsWord(s[pos]) THEN LexScan(s, pos + 1, "a", <<s[pos]>>, FALSE)
    ELSE IF IsDigit(s[pos]) THEN LexScan(s, pos + 1, "0", <<s[pos]>>, FALSE)
    ELSE [token |-> IF IsSpace(s[pos]) THEN <<" ">> ELSE <<s[pos]>>, pos |-> pos + 1,
          state |-> "", seenletters |-> FALSE]

(* _timelex.split(s) from position pos; r is the token read last *)
RECURSIVE TimeLex(_, _)
RECURSIVE TimeLexAfter(_, _)
TimeLexAfter(s, r) ==
    LexEmit(r) \o TimeLex(s, r.pos)

TimeLex(s, pos) ==
    IF pos > Len(s) THEN <<>> ELSE TimeLexAfter(s, GetToken(s, pos))

(* parserinfo.JUMP, the one-character entries *)
IsJump(t) ==
    t \in {<<" ">>, <<".">>, <<",">>, <<";">>, <<"-">>, <<"/">>, <<"'">>}

(* parserinfo.month(name): 3 for March, 0 for a word that is no month *)
MonthOf(t) ==
    IF t \in {<<"M", "a", "r", "c", "h">>, <<"M", "a", "r">>} THEN 3 ELSE 0

IsDigits(t) ==
    t # <<>> /\ \A i \in 1..Len(t) : IsDigit(t[i])

(* float(token) succeeds: digits with at most one dot inside *)
IsNumeral(t) ==
    /\ t # <<>>
    /\ \A i \in 1..Len(t) : IsDigit(t[i]) \/ t[i] = "."
    /\ IsDigit(t[1]) /\ IsDigit(t[Len(t)])
    /\ CountOf(t, ".") <= 1

(* The value of an integer that fits no C int (above 2^31 - 1).  A numeral  *)
(* of the model has at most eight digits or more than ten.                  *)
TooBig == 2147483647

RECURSIVE StripZeros(_)
StripZeros(t) ==
    IF Len(t) > 1 /\ t[1] = "0" THEN StripZeros(Tail(t)) ELSE t

(* int(t) of a string of digits *)
IntValue(t) ==
    IF Len(StripZeros(t)) > 9 THEN TooBig ELSE IntOf(StripZeros(t))

DotAt(t) ==
    IF CountOf(t, ".") = 0 THEN 0 ELSE CHOOSE i \in 1..Len(t) : t[i] = "."

(* int(Decimal(t)) *)
IntPart(t) ==
    IF DotAt(t) = 0 THEN IntValue(t) ELSE IntValue(SubSeq(t, 1, DotAt(t) - 1))

HasFraction(t) ==
    DotAt(t) > 0 /\ \E i \in (DotAt(t) + 1)..Len(t) : t[i] # "0"

Slice(t, a, b) ==
    SubSeq(t, a, IF b < Len(t) THEN b ELSE Len(t))

(* The day of the run: parser.parse takes from it what the text leaves out. *)
Today ==
    [year |-> 2026, month |-> 10, day |-> 31]

IsLeap(y) ==
    y % 4 = 0 /\ (y % 100 # 0 \/ y % 400 = 0)

(* calendar.monthrange(y, m)[1] *)
DaysIn(y, m) ==
    IF m = 2 THEN (IF IsLeap(y) THEN 29 ELSE 28)
    ELSE IF m \in {4, 6, 9, 11} THEN 30 ELSE 31

(* days from 0000-03-01 to the day y-m-d *)
DayNumber(y, m, d) ==
    LET yy == IF m <= 2 THEN y - 1 ELSE y
        mm == IF m <= 2 THEN m + 12 ELSE m
    IN 365 * yy + (yy \div 4) - (yy \div 100) + (yy \div 400) + ((153 * (mm - 3) + 2) \div 5) + d

(* the day of the reports a calendar day is *)
DayOf(y, m, d) ==
    DayNumber(y, m, d) - DayNumber(2024, 3, 10)

(* The state of _parse: the _ymd list with the positions of the value known *)
(* to be the year (ystridx) and the month (mstridx), 0 for None; the fields *)
(* of the result, -1 for None; i, the position in the lexemes; err, whether *)
(* a ValueError or an IndexError was raised.                                *)
ParseStart ==
    [ymd |-> <<>>, ystridx |-> 0, mstridx |-> 0, century_specified |-> FALSE,
     hour |-> -1, minute |-> -1, second |-> -1, tzname |-> FALSE, tzoffset |-> FALSE,
     i |-> 1, err |-> FALSE]

Raise(st) ==
    [st EXCEPT !.err = TRUE]

(* the end of _ymd.append: the value is put down with its label *)
YmdPut(st, v, label, century) ==
    LET n == Len(st.ymd) + 1
        s == [st EXCEPT !.ymd = Append(st.ymd, v),
                        !.century_specified = st.century_specified \/ century]
    IN IF st.err THEN st
       ELSE IF label = "M" THEN (IF st.mstridx # 0 THEN Raise(st) ELSE [s EXCEPT !.mstridx = n])
       ELSE IF label = "Y" THEN (IF st.ystridx # 0 THEN Raise(st) ELSE [s EXCEPT !.ystridx = n])
       ELSE s

(* _ymd.append(val, label) of a string *)
YmdAppendStr(st, t, label) ==
    IF ~IsDigits(t) THEN Raise(st)
    ELSE YmdPut(st, IntValue(t), IF Len(t) > 2 THEN "Y" ELSE label, Len(t) > 2)

(* _ymd.append(val, label) of a number *)
YmdAppendNum(st, v, label) ==
    YmdPut(st, v, IF v > 100 THEN "Y" ELSE label, v > 100)

(* _ymd.append(value) of the Decimal a numeral is read as *)
YmdAppendDecimal(st, t) ==
    LET large == IntPart(t) > 100 \/ (IntPart(t) = 100 /\ HasFraction(t))
    IN YmdPut(st, IntPart(t), IF large THEN "Y" ELSE "", large)

(* int(s) into a field of the result *)
SetField(st, field, t) ==
    IF st.err \/ ~IsDigits(t) THEN Raise(st)
    ELSE [st EXCEPT ![field] = IntValue(t)]

(* _ymd.could_be_day(value) *)
CouldBeDay(st, t) ==
    LET v    == IntPart(t)
        most == IF st.mstridx = 0 THEN 31
                ELSE IF st.ystridx = 0 THEN DaysIn(2000, st.ymd[st.mstridx])
                ELSE DaysIn(st.ymd[st.ystridx], st.ymd[st.mstridx])
    IN 1 <= v /\ (v < most \/ (v = most /\ ~HasFraction(t)))

(* a member of a date written with separators, the lexeme at position k: a *)
(* numeral or the name of a month; no lexeme is an IndexError               *)
YmdAppendMember(l, k, st) ==
    IF k > Len(l) THEN Raise(st)
    ELSE IF MonthOf(l[k]) # 0 THEN YmdAppendNum(st, MonthOf(l[k]), "M")
    ELSE YmdAppendStr(st, l[k], "")

(* the third member, when the separator stands again after the second *)
ParseThird(l, i, st) ==
    IF i + 3 <= Len(l) /\ l[i + 3] = l[i + 1]
      THEN [YmdAppendMember(l, i + 4, st) EXCEPT !.i = i + 4]
    ELSE [st EXCEPT !.i = i + 2]

(* the second member, when a lexeme that is no jump follows the separator *)
ParseSecond(l, i, st) ==
    IF i + 2 <= Len(l) /\ ~IsJump(l[i + 2])
      THEN ParseThird(l, i, YmdAppendMember(l, i + 2, st))
    ELSE [st EXCEPT !.i = i + 1]

(* the branch of _parse_numeric_token for a numeral followed by '-', '/' or *)
(* '.': up to three members of a date.                                      *)
ParseSeparated(l, st) ==
    ParseSecond(l, st.i, YmdAppendStr(st, l[st.i], ""))

(* _parse_numeric_token *)
ParseNumericToken(l, st, fuzzy) ==
    LET i  == st.i
        n  == Len(l)
        t  == l[i]
        ln == Len(t)
    IN IF Len(st.ymd) = 3 /\ ln \in {2, 4} /\ st.hour = -1 /\ (i + 1 > n \/ l[i + 1] # <<":">>)
         THEN IF ln = 4 THEN SetField(SetField(st, "hour", Slice(t, 1, 2)), "minute", Slice(t, 3, 4))
              ELSE SetField(st, "hour", Slice(t, 1, 2))
       ELSE IF ln = 6 \/ (ln > 6 /\ DotAt(t) = 7)
         THEN IF st.ymd = <<>> /\ DotAt(t) = 0
                THEN YmdAppendStr(YmdAppendStr(YmdAppendStr(st, Slice(t, 1, 2), ""), Slice(t, 3, 4), ""),
                                  Slice(t, 5, 6), "")
              ELSE SetField(SetField(SetField(st, "hour", Slice(t, 1, 2)), "minute", Slice(t, 3, 4)),
                            "second", Slice(t, 5, 6))
       ELSE IF ln \in {8, 12, 14}
         THEN LET a == YmdAppendStr(YmdAppendStr(YmdAppendStr(st, Slice(t, 1, 4), "Y"), Slice(t, 5, 6), ""),
                                    Slice(t, 7, 8), "")
              IN IF ln = 8 THEN a
                 ELSE IF ln = 12 THEN SetField(SetField(a, "hour", Slice(t, 9, 10)), "minute", Slice(t, 11, 12))
                 ELSE SetField(SetField(SetField(a, "hour", Slice(t, 9, 10)), "minute", Slice(t, 11, 12)),
                               "second", Slice(t, 13, 14))
       ELSE IF i + 1 <= n /\ l[i + 1] \in {<<"-">>, <<"/">>, <<".">>}
         THEN ParseSeparated(l, st)
       ELSE IF i + 1 > n \/ IsJump(l[i + 1])
         THEN [YmdAppendDecimal(st, t) EXCEPT !.i = i + 1]
       ELSE IF CouldBeDay(st, t)
         THEN YmdAppendDecimal(st, t)
       ELSE IF fuzzy THEN st
       ELSE Raise(st)

(* the branch of _parse for a month name, with 'Mar-11' and 'Mar-11-2024' *)
ParseMonth(l, st) ==
    IF st.i + 1 <= Len(l) /\ l[st.i + 1] \in {<<"-">>, <<"/">>}
      THEN ParseThird(l, st.i, YmdAppendMember(l, st.i + 2, YmdAppendNum(st, MonthOf(l[st.i]), "M")))
    ELSE YmdAppendNum(st, MonthOf(l[st.i]), "M")

(* _could_be_tzname(res.hour, res.tzname, res.tzoffset, token) *)
CouldBeTzname(st, t) ==
    /\ st.hour # -1 /\ ~st.tzname /\ ~st.tzoffset
    /\ Len(t) <= 5
    /\ \A k \in 1..Len(t) : t[k] \in UpperLetters

(* the branch of _parse for a numbered time zone, '-0300' or '-03': the     *)
(* offset is read with int() and plays no part in the date.                 *)
ParseTzOffset(l, st) ==
    LET i  == st.i
        x  == l[i + 1]
        ok == IF Len(x) = 4 THEN IsDigits(Slice(x, 1, 2)) /\ IsDigits(Slice(x, 3, 4))
              ELSE Len(x) <= 2 /\ IsDigits(x)
    IN IF i + 1 > Len(l) THEN Raise(st)
       ELSE IF ~ok THEN Raise(st)
       ELSE [st EXCEPT !.tzoffset = TRUE, !.i = i + 1]

(* one turn of the loop of _parse *)
ParseToken(l, st, fuzzy) ==
    LET t == l[st.i]
    IN IF IsNumeral(t) THEN ParseNumericToken(l, st, fuzzy)
       ELSE IF MonthOf(t) # 0 THEN ParseMonth(l, st)
       ELSE IF CouldBeTzname(st, t) THEN [st EXCEPT !.tzname = TRUE]
       ELSE IF st.hour # -1 /\ t = <<"-">> THEN ParseTzOffset(l, st)
       ELSE IF IsJump(t) \/ fuzzy THEN st
       ELSE Raise(st)

RECURSIVE ParseTokens(_, _, _)
ParseTokens(l, st, fuzzy) ==
    IF st.err \/ st.i > Len(l) THEN st
    ELSE ParseTokens(l, [ParseToken(l, st, fuzzy) EXCEPT !.i = @ + 1], fuzzy)

(* _ymd.resolve_ymd(yearfirst=False, dayfirst=False): [year, month, day],   *)
(* -1 for None; err for more than three values.                             *)
Ymd(y, m, d) ==
    [year |-> y, month |-> m, day |-> d, err |-> FALSE]

ResolveYmd(st) ==
    LET v == st.ymd
        k == Len(v)
        ys == st.ystridx
        ms == st.mstridx
        labels == (IF ys # 0 THEN 1 ELSE 0) + (IF ms # 0 THEN 1 ELSE 0)
        rest == CHOOSE j \in 1..3 : j # ys /\ j # ms
        other == IF ms = 1 THEN v[k] ELSE v[1]
    IN IF (k = labels /\ k > 0) \/ (k = 3 /\ labels = 2)
         THEN Ymd(IF ys # 0 THEN v[ys] ELSE -1, IF ms # 0 THEN v[ms] ELSE -1,
                  IF k = 3 THEN v[rest] ELSE -1)
       ELSE IF k > 3 THEN [Ymd(-1, -1, -1) EXCEPT !.err = TRUE]
       ELSE IF k = 0 THEN Ymd(-1, -1, -1)
       ELSE IF k = 1 \/ (ms # 0 /\ k = 2)
         THEN IF k = 1 /\ ms # 0 THEN Ymd(-1, v[ms], -1)
              ELSE IF other > 31 THEN Ymd(other, IF ms # 0 THEN v[ms] ELSE -1, -1)
              ELSE Ymd(-1, IF ms # 0 THEN v[ms] ELSE -1, other)
       ELSE IF k = 2
         THEN IF v[1] > 31 THEN Ymd(v[1], v[2], -1)
              ELSE IF v[2] > 31 THEN Ymd(v[2], v[1], -1)
              ELSE Ymd(-1, v[1], v[2])
       ELSE IF ms = 1 THEN (IF v[2] > 31 THEN Ymd(v[2], v[1], v[3]) ELSE Ymd(v[3], v[1], v[2]))
       ELSE IF ms = 2 THEN (IF v[1] > 31 THEN Ymd(v[1], v[2], v[3]) ELSE Ymd(v[3], v[2], v[1]))
       ELSE IF ms = 3 THEN (IF v[2] > 31 THEN Ymd(v[2], v[3], v[1]) ELSE Ymd(v[1], v[3], v[2]))
       ELSE IF v[1] > 31 \/ ys = 1 THEN Ymd(v[1], v[2], v[3])
       ELSE IF v[1] > 12 THEN Ymd(v[3], v[2], v[1])
       ELSE Ymd(v[3], v[1], v[2])

(* parserinfo.convertyear(year, century_specified) *)
ConvertYear(y, century_specified) ==
    LET c == y + (Today.year - (Today.year % 100))
    IN IF y >= 100 \/ century_specified THEN y
       ELSE IF c >= Today.year + 50 THEN c - 100
       ELSE IF c < Today.year - 50 THEN c + 100
       ELSE c

ParseFailed(kind) ==
    [st |-> kind, d |-> 0]

(* parser.parse after _parse: an empty result is no date; _build_naive      *)
(* fills what is missing from the day of the run and datetime.replace       *)
(* checks the values, an integer too large for a C int before the ranges.   *)
BuildNaive(st, r) ==
    LET year  == IF r.year = -1 THEN Today.year ELSE ConvertYear(r.year, st.century_specified)
        month == IF r.month = -1 THEN Today.month ELSE r.month
        cday  == IF r.day = -1 THEN Today.day ELSE r.day
        day   == IF r.day = -1 /\ month \in 1..12 /\ cday > DaysIn(year, month)
                   THEN DaysIn(year, month) ELSE cday
    IN IF r.err THEN ParseFailed("ParserError")
       ELSE IF r.year = -1 /\ r.month = -1 /\ r.day = -1 /\ st.hour = -1 /\ ~st.tzname /\ ~st.tzoffset
         THEN ParseFailed("ParserError")
       ELSE IF r.day = -1 /\ month \notin 1..12 THEN ParseFailed("ParserError")
       ELSE IF TooBig \in {year, month, day} THEN ParseFailed("OverflowError")
       ELSE IF ~(1 <= year /\ year <= 9999 /\ month \in 1..12 /\ 1 <= day /\ day <= DaysIn(year, month))
         THEN ParseFailed("ParserError")
       ELSE IF st.hour > 23 \/ st.minute > 59 \/ st.second > 59 THEN ParseFailed("ParserError")
       ELSE [st |-> "ok", d |-> DayOf(year, month, day)]

(* the end of parser.parse: a ValueError of _parse is a ParserError *)
ParseResult(st) ==
    IF st.err THEN ParseFailed("ParserError") ELSE BuildNaive(st, ResolveYmd(st))

(* parser.parse(timestr, fuzzy=fuzzy).date() on the characters of timestr *)
ParseChars(timestr, fuzzy) ==
    ParseResult(ParseTokens(TimeLex(timestr, 1), ParseStart, fuzzy))

(* parser.parse(text) *)
ParserParse(text) ==
    ParseChars(SpellAll(text), FALSE)

(* parser.parse(text, fuzzy=True) *)
ParserParseFuzzy(text) ==
    ParseChars(SpellAll(text), TRUE)

-----------------------------------------------------------------------------
(* Tables.  A table is [columns, rows]: the column names in order and the   *)
(* rows, each a sequence of cells in column order.                          *)

Col(name) ==
    <<Tok(name)>>

HasCol(df, name) ==
    \E i \in 1..Len(df.columns) : df.columns[i] = Col(name)

ColIdx(df, name) ==
    CHOOSE i \in 1..Len(df.columns) : df.columns[i] = Col(name)

(* df.columns = [col.strip() for col in df.columns] *)
StripColumns(df) ==
    [df EXCEPT !.columns = [i \in 1..Len(df.columns) |-> Strip(df.columns[i])]]

(* an assignment that leaves a column of that name as the file has it *)
SetColumnKeepExisting(df, name, value) ==
    IF HasCol(df, name) THEN df
    ELSE [columns |-> Append(df.columns, Col(name)),
          rows    |-> [r \in 1..Len(df.rows) |-> Append(df.rows[r], value)]]

(* df[name] = value (one value for every row): replaces the column or adds it *)
SetColumn(df, name, value) ==
    IF HasCol(df, name)
    THEN [df EXCEPT !.rows =
            [r \in 1..Len(df.rows) |-> [df.rows[r] EXCEPT ![ColIdx(df, name)] = value]]]
    ELSE [columns |-> Append(df.columns, Col(name)),
          rows    |-> [r \in 1..Len(df.rows) |-> Append(df.rows[r], value)]]

-----------------------------------------------------------------------------
(* load_and_preprocess_data *)

(* pd.read_csv(file_path, skiprows=1): the table under the first line, or an *)
(* exception for content pandas cannot read as a table.                     *)
ReadCsv(f) ==
    IF f.body.ok THEN [st |-> "ok", df |-> [columns |-> f.body.columns, rows |-> f.body.rows]]
    ELSE [st |-> "error", df |-> [columns |-> <<>>, rows |-> <<>>]]

NoRecord(msgs) ==
    [recs |-> <<>>, msgs |-> msgs]

(* Lines 57-61: read the table, clean the column names, tag the rows, append *)
ReadAndTag(idx, file_date, csv, msgs) ==
    IF csv.st # "ok" THEN NoRecord(msgs \o <<"error">>)
    ELSE [recs |-> <<[date |-> file_date,
                      df   |-> SetColumn(StripColumns(csv.df), "Date", DateCell(file_date)),
                      file |-> idx]>>,
          msgs |-> msgs]

(* Lines 50-55: the date of the file name, parsed with fuzzy=True; a         *)
(* ParserError skips the file with a warning, any other exception leaves    *)
(* the try block for the handler of line 63.                                *)
LoadByName(f, idx, byname, msgs) ==
    CASE byname.st = "ParserError"   -> NoRecord(msgs \o <<"warning_filename_date">>)
      [] byname.st = "OverflowError" -> NoRecord(msgs \o <<"error">>)
      [] byname.st = "ok"            -> ReadAndTag(idx, byname.d, ReadCsv(f), msgs)

(* Lines 40-47: the date of the first line; content is the parse of the      *)
(* value after the label ("absent" when the pattern does not match)         *)
ContentDate(date_match) ==
    IF date_match.found THEN ParserParse(Strip(date_match.group))
    ELSE [st |-> "absent", d |-> 0]

LoadByContent(f, idx, content) ==
    CASE content.st = "ok"            -> ReadAndTag(idx, content.d, ReadCsv(f), <<>>)
      [] content.st = "OverflowError" -> NoRecord(<<"error">>)
      [] content.st = "ParserError"   ->
           LoadByName(f, idx, ParserParseFuzzy(f.name), <<"warning_content_date">>)
      [] content.st = "absent"        ->
           LoadByName(f, idx, ParserParseFuzzy(f.name), <<>>)

(* The body of the loop for one file; idx is the file's place in the        *)
(* enumeration, kept with the record as history.                            *)
LoadFile(f, idx) ==
    IF ~f.canOpen THEN NoRecord(<<"error">>)
    ELSE LoadByContent(f, idx, ContentDate(DateSearch(f.first_line)))

(* a sort that places an element before the elements of equal date *)
RECURSIVE SortByDateUnstable(_)
SortByDateUnstable(s) ==
    IF s = <<>> THEN <<>>
    ELSE
      LET x    == s[Len(s)]
          rest == SortByDateUnstable(SubSeq(s, 1, Len(s) - 1))
          k    == Cardinality({i \in 1..Len(rest) : rest[i].date < x.date})
      IN SubSeq(rest, 1, k) \o <<x>> \o SubSeq(rest, k + 1, Len(rest))

(* list.sort(key=lambda x: x["date"]): stable *)
RECURSIVE SortByDate(_)
SortByDate(s) ==
    IF s = <<>> THEN <<>>
    ELSE
      LET x    == s[Len(s)]
          rest == SortByDate(SubSeq(s, 1, Len(s) - 1))
          k    == Cardinality({i \in 1..Len(rest) : rest[i].date <= x.date})
      IN SubSeq(rest, 1, k) \o <<x>> \o SubSeq(rest, k + 1, Len(rest))

(* f.endswith('.csv') *)
IsCsv(f) ==
    f.name # <<>> /\ f.name[Len(f.name)].t = ".csv"

RECURSIVE LoadFiles(_, _)
LoadFiles(files, i) ==
    IF i > Len(files) THEN NoRecord(<<>>)
    ELSE
      LET one  == LoadFile(files[i], i)
          more == LoadFiles(files, i + 1)
      IN [recs |-> one.recs \o more.recs, msgs |-> one.msgs \o more.msgs]

load_and_preprocess_data(dir) ==
    IF ~dir.exists THEN [result |-> <<>>, msgs |-> <<"error_no_directory">>]
    ELSE
      LET files == SelectSeq(dir.listing, IsCsv)
          got   == LoadFiles(files, 1)
      IN [result |-> SortByDate(got.recs), msgs |-> got.msgs]

-----------------------------------------------------------------------------
(* float64 arithmetic.  The value of a cell is held as the decimal numeral  *)
(* it was read from; the KPI arithmetic is done on the binary64 value       *)
(* nearest to it, as the interpreter does it: every operation is rounded to *)
(* a 53-bit significand, ties to even.  Naturals beyond 31 bits are         *)
(* little-endian sequences of limbs in base Limb with no leading zero limb. *)

Limb == 32768

LimbBits == 15

SigBits == 53

(* a quotient is taken to DivRuns * DivBits bits after its first *)
DivBits == 14

DivRuns == 4

RECURSIVE Pow2(_)
Pow2(n) ==
    IF n <= 0 THEN 1 ELSE 2 * Pow2(n - 1)

RECURSIVE BNorm(_)
BNorm(a) ==
    IF a # <<>> /\ a[Len(a)] = 0 THEN BNorm(SubSeq(a, 1, Len(a) - 1)) ELSE a

RECURSIVE BFromInt(_)
BFromInt(n) ==
    IF n = 0 THEN <<>> ELSE <<n % Limb>> \o BFromInt(n \div Limb)

(* a * k + carry, for k and carry below Limb *)
RECURSIVE BMulSmall(_, _, _)
BMulSmall(a, k, carry) ==
    IF a = <<>> THEN BFromInt(carry)
    ELSE <<(a[1] * k + carry) % Limb>>
         \o BMulSmall(Tail(a), k, (a[1] * k + carry) \div Limb)

(* the quotient and the remainder of a by d, for d below Limb: the limbs    *)
(* from the top down, r the remainder so far                                *)
RECURSIVE BDivLimbs(_, _, _)
BDivLimbs(a, d, r) ==
    IF a = <<>> THEN [q |-> <<>>, r |-> r]
    ELSE
      LET t    == r * Limb + a[Len(a)]
          rest == BDivLimbs(SubSeq(a, 1, Len(a) - 1), d, t % d)
      IN [q |-> Append(rest.q, t \div d), r |-> rest.r]

BDivSmall(a, d) ==
    [q |-> BNorm(BDivLimbs(a, d, 0).q), r |-> BDivLimbs(a, d, 0).r]

RECURSIVE BAdd(_, _, _)
BAdd(a, b, carry) ==
    IF a = <<>> /\ b = <<>> THEN BFromInt(carry)
    ELSE
      LET t == (IF a = <<>> THEN 0 ELSE a[1]) + (IF b = <<>> THEN 0 ELSE b[1]) + carry
      IN <<t % Limb>>
         \o BAdd(IF a = <<>> THEN a ELSE Tail(a), IF b = <<>> THEN b ELSE Tail(b),
                 t \div Limb)

(* a < b *)
RECURSIVE BLess(_, _)
BLess(a, b) ==
    IF Len(a) # Len(b) THEN Len(a) < Len(b)
    ELSE IF a = <<>> THEN FALSE
    ELSE IF a[Len(a)] # b[Len(b)] THEN a[Len(a)] < b[Len(b)]
    ELSE BLess(SubSeq(a, 1, Len(a) - 1), SubSeq(b, 1, Len(b) - 1))

(* a - b - borrow, limb by limb, for a >= b; BSub takes the leading zeros off *)
RECURSIVE BSubLimbs(_, _, _)
BSubLimbs(a, b, borrow) ==
    IF a = <<>> THEN <<>>
    ELSE
      LET t == a[1] - (IF b = <<>> THEN 0 ELSE b[1]) - borrow
      IN <<(t + Limb) % Limb>>
         \o BSubLimbs(Tail(a), IF b = <<>> THEN b ELSE Tail(b), IF t < 0 THEN 1 ELSE 0)

BSub(a, b) ==
    BNorm(BSubLimbs(a, b, 0))

RECURSIVE IntBits(_)
IntBits(n) ==
    IF n = 0 THEN 0 ELSE 1 + IntBits(n \div 2)

BitLen(a) ==
    IF a = <<>> THEN 0 ELSE (Len(a) - 1) * LimbBits + IntBits(a[Len(a)])

(* a * 2^s *)
BShl(a, s) ==
    IF a = <<>> THEN a
    ELSE [i \in 1..(s \div LimbBits) |-> 0] \o BMulSmall(a, Pow2(s % LimbBits), 0)

(* a \div 2^s *)
BShr(a, s) ==
    IF s \div LimbBits >= Len(a) THEN <<>>
    ELSE BDivSmall(SubSeq(a, (s \div LimbBits) + 1, Len(a)), Pow2(s % LimbBits)).q

(* bit k of a (bit 0 is the lowest) *)
BBit(a, k) ==
    IF k < 0 \/ k \div LimbBits >= Len(a) THEN 0
    ELSE (a[(k \div LimbBits) + 1] \div Pow2(k % LimbBits)) % 2

(* some bit of a below bit k is set *)
BAnyBelow(a, k) ==
    \E i \in 1..Len(a) :
      \/ i <= k \div LimbBits /\ a[i] # 0
      \/ i = (k \div LimbBits) + 1 /\ k > 0 /\ a[i] % Pow2(k % LimbBits) # 0

(* n \div 2^s to the nearest natural, ties to even; sticky says that the    *)
(* exact value lies above n (by less than one)                              *)
BShrRound(n, s, sticky) ==
    LET q    == BShr(n, s)
        half == s > 0 /\ BBit(n, s - 1) = 1
        rest == sticky \/ (s > 0 /\ BAnyBelow(n, s - 1))
        odd  == BBit(q, 0) = 1
    IN IF half /\ (rest \/ odd) THEN BAdd(q, <<>>, 1) ELSE q

(* A binary64 value: [k, neg, M, E] is (-1)^neg * M * 2^E with M of 53 bits, *)
(* or zero (M = <<>>), or k = "inf", or k = "nan".                          *)
F64(k, neg, M, E) ==
    [k |-> k, neg |-> neg, M |-> M, E |-> E]

F64NaN ==
    F64("nan", FALSE, <<>>, 0)

(* the binary64 value nearest to n * 2^E (n > 0; sticky as in BShrRound,    *)
(* given only with n of more than 54 bits)                                  *)
F64Round(neg, n, E, sticky) ==
    LET L == BitLen(n)
    IN IF n = <<>> THEN F64("fin", neg, <<>>, 0)
       ELSE IF L <= SigBits THEN F64("fin", neg, BShl(n, SigBits - L), E - (SigBits - L))
       ELSE
         LET m == BShrRound(n, L - SigBits, sticky)
         IN IF BitLen(m) > SigBits
              THEN F64("fin", neg, BShr(m, 1), E + (L - SigBits) + 1)
              ELSE F64("fin", neg, m, E + (L - SigBits))

(* n \div 10^k, with the flag of a remainder *)
RECURSIVE BDivPow10(_, _, _)
BDivPow10(n, k, sticky) ==
    IF k = 0 THEN [q |-> n, sticky |-> sticky]
    ELSE LET d == BDivSmall(n, 10)
         IN BDivPow10(d.q, k - 1, sticky \/ d.r # 0)

RECURSIVE BMulPow10(_, _)
BMulPow10(n, k) ==
    IF k <= 0 THEN n ELSE BMulPow10(BMulSmall(n, 10, 0), k - 1)

(* float(numeral): the binary64 value of the float the model holds as the   *)
(* decimal m * 10^e.  For e < 0 the quotient m * 2^s / 10^-e is taken with  *)
(* more than 64 bits.                                                       *)
Float64(f) ==
    IF f.nan THEN F64NaN
    ELSE IF f.e >= 0 THEN F64Round(f.neg, BMulPow10(BFromInt(f.m), f.e), 0, FALSE)
    ELSE
      LET s == 64 - 4 * f.e
          d == BDivPow10(BShl(BFromInt(f.m), s), -f.e, FALSE)
      IN F64Round(f.neg, d.q, -s, d.sticky)

(* x * 100 *)
Times100(x) ==
    IF x.k # "fin" THEN x
    ELSE F64Round(x.neg, BMulSmall(x.M, 100, 0), x.E, FALSE)

(* x - y *)
F64Sub(x, y) ==
    IF x.k = "nan" \/ y.k = "nan" THEN F64NaN
    ELSE IF x.k = "inf" THEN (IF y.k = "inf" /\ y.neg = x.neg THEN F64NaN ELSE x)
    ELSE IF y.k = "inf" THEN [y EXCEPT !.neg = ~y.neg]
    ELSE IF y.M = <<>> THEN (IF x.M = <<>> THEN F64("fin", x.neg /\ ~y.neg, <<>>, 0) ELSE x)
    ELSE IF x.M = <<>> THEN [y EXCEPT !.neg = ~y.neg]
    ELSE
      LET E0 == IF x.E < y.E THEN x.E ELSE y.E
          X  == BShl(x.M, x.E - E0)
          Y  == BShl(y.M, y.E - E0)
      IN IF x.neg # y.neg THEN F64Round(x.neg, BAdd(X, Y, 0), E0, FALSE)
         ELSE IF X = Y THEN F64("fin", FALSE, <<>>, 0)
         ELSE IF BLess(X, Y) THEN F64Round(~x.neg, BSub(Y, X), E0, FALSE)
         ELSE F64Round(x.neg, BSub(X, Y), E0, FALSE)

(* the quotient (below 2^n) and the remainder of r * 2^n by d, bit by bit,  *)
(* for r < d and n below LimbBits                                           *)
RECURSIVE BLongDiv(_, _, _)
BLongDiv(r, d, n) ==
    IF n = 0 THEN [q |-> 0, r |-> r]
    ELSE
      LET r2   == BMulSmall(r, 2, 0)
          ge   == ~BLess(r2, d)
          rest == BLongDiv(IF ge THEN BSub(r2, d) ELSE r2, d, n - 1)
      IN [q |-> (IF ge THEN Pow2(n - 1) ELSE 0) + rest.q, r |-> rest.r]

(* c more runs of DivBits bits each after the quotient q and remainder r *)
RECURSIVE BDivRuns(_, _, _, _)
BDivRuns(q, r, d, c) ==
    IF c = 0 THEN [q |-> q, sticky |-> r # <<>>]
    ELSE BDivRuns(BMulSmall(q, Pow2(DivBits), BLongDiv(r, d, DivBits).q),
                  BLongDiv(r, d, DivBits).r, d, c - 1)

(* x / y on numpy.float64: a division by zero gives inf or nan *)
F64Div(x, y) ==
    IF x.k = "nan" \/ y.k = "nan" THEN F64NaN
    ELSE IF x.k = "inf" THEN (IF y.k = "inf" THEN F64NaN ELSE F64("inf", x.neg # y.neg, <<>>, 0))
    ELSE IF y.k = "inf" THEN F64("fin", x.neg # y.neg, <<>>, 0)
    ELSE IF y.M = <<>> THEN (IF x.M = <<>> THEN F64NaN ELSE F64("inf", x.neg # y.neg, <<>>, 0))
    ELSE IF x.M = <<>> THEN F64("fin", x.neg # y.neg, <<>>, 0)
    ELSE
      LET first == ~BLess(x.M, y.M)
          d     == BDivRuns(IF first THEN <<1>> ELSE <<>>,
                            IF first THEN BSub(x.M, y.M) ELSE x.M, y.M, DivRuns)
      IN F64Round(x.neg # y.neg, d.q, x.E - y.E - DivRuns * DivBits, d.sticky)

(* the decimal digits of a natural *)
RECURSIVE BDigits(_)
BDigits(n) ==
    IF n = <<>> THEN <<>>
    ELSE BDigits(BDivSmall(n, 10).q) \o <<DigitChar[BDivSmall(n, 10).r + 1]>>

(* the numeral of scaled / 10^nd with nd decimals *)
FormatScaled(neg, scaled, nd) ==
    LET ds    == BDigits(scaled)
        all   == Zeros(nd + 1 - Len(ds)) \o ds
        whole == Len(all) - nd
    IN (IF neg THEN <<"-">> ELSE <<>>) \o SubSeq(all, 1, whole)
       \o (IF nd > 0 THEN <<".">> \o SubSeq(all, whole + 1, Len(all)) ELSE <<>>)

(* f"{x:.<nd>f}": the exact binary value, rounded to nd decimals, ties to even *)
FormatFixed(x, nd) ==
    CASE x.k = "nan" -> <<"n", "a", "n">>
      [] x.k = "inf" -> (IF x.neg THEN <<"-">> ELSE <<>>) \o <<"i", "n", "f">>
      [] x.k = "fin" ->
           LET n == BMulPow10(x.M, nd)
           IN IF x.E >= 0 THEN FormatScaled(x.neg, BShl(n, x.E), nd)
              ELSE FormatScaled(x.neg, BShrRound(n, -x.E, FALSE), nd)

(* f"{((a - s) / s) * 100:.1f}" *)
FormatPctVsTarget(a, s) ==
    FormatFixed(Times100(F64Div(F64Sub(a, s), s)), 1)

(* x < 1 on float64; a comparison with NaN is False.  For the numerals the  *)
(* model holds (fewer than 16 digits) the binary value is below 1 exactly   *)
(* when the decimal is.                                                     *)
LessThanOne(f) ==
    ~f.nan /\ (f.m = 0 \/ f.neg \/ (f.e < 0 /\ f.m < Pow10(-f.e)))

-----------------------------------------------------------------------------
(* display_single_day_analysis *)

(* Row labels are held as one piece of text each *)
Label(name) ==
    Str(<<name>>)

(* df[col] = df[col].astype(str).str.extract(...).astype(float) *)
CleanColumn(df, name) ==
    IF ~HasCol(df, name) THEN df
    ELSE [df EXCEPT !.rows =
            [r \in 1..Len(df.rows) |->
               [df.rows[r] EXCEPT ![ColIdx(df, name)] = CleanNumeric(@)]]]

(* for col in ['Standard', 'Actual']: if col in df.columns: ... *)
CleanNumericColumns(df) ==
    CleanColumn(CleanColumn(df, "Standard"), "Actual")

At(df, row, name) ==
    row[ColIdx(df, name)]

NoKpi(kind) ==
    [kind |-> kind, total |-> <<>>, delta |-> <<>>, oee_I |-> <<>>, oee_II |-> <<>>]

(* The try block of the key metrics: the four first-match lookups, then the  *)
(* three metrics.  A label of a missing column raises KeyError, which the   *)
(* except clause (IndexError, TypeError) does not catch; .iloc[0] on no row *)
(* raises IndexError, which it reports as a warning.                        *)
KeyMetrics(df) ==
    IF ~HasCol(df, "Particulars") \/ ~HasCol(df, "Actual") THEN NoKpi("KeyError")
    ELSE
      LET target == SelectSeq(df.rows,
                      LAMBDA r : At(df, r, "Particulars") = Label("Production target"))
      IN IF target = <<>> THEN NoKpi("incomplete")
         ELSE IF ~HasCol(df, "Standard") THEN NoKpi("KeyError")
         ELSE
           LET Oee(name) == SelectSeq(df.rows,
                              LAMBDA r : /\ At(df, r, "Particulars") = Label(name)
                                         /\ LessThanOne(At(df, r, "Standard").f))
               actual    == At(df, target[1], "Actual").f
               standard  == At(df, target[1], "Standard").f
           IN IF Oee("Pellet-I") = <<>> \/ Oee("Pellet-II") = <<>> THEN NoKpi("incomplete")
              ELSE [kind   |-> "metrics",
                    total  |-> FormatFixed(Float64(actual), 2),
                    delta  |-> FormatPctVsTarget(Float64(actual), Float64(standard)),
                    oee_I  |-> FormatFixed(
                                 Times100(Float64(At(df, Oee("Pellet-I")[1], "Actual").f)), 1),
                    oee_II |-> FormatFixed(
                                 Times100(Float64(At(df, Oee("Pellet-II")[1], "Actual").f)), 1)]

(* The record after the call (its table is cleaned in place) and the KPIs.   *)
(* The tables drawn have no Remark column, so no analysis point is listed.  *)
display_single_day_analysis(selected_data) ==
    LET df == CleanNumericColumns(selected_data.df)
    IN [record |-> [selected_data EXCEPT !.df = df], kpi |-> KeyMetrics(df)]

-----------------------------------------------------------------------------
(* display_date_range_analysis *)

RECURSIVE UnionColumns(_, _)
UnionColumns(cols, more) ==
    IF more = <<>> THEN cols
    ELSE IF \E i \in 1..Len(cols) : cols[i] = more[1] THEN UnionColumns(cols, Tail(more))
    ELSE UnionColumns(Append(cols, more[1]), Tail(more))

RECURSIVE ConcatColumns(_)
ConcatColumns(dfs) ==
    IF dfs = <<>> THEN <<>>
    ELSE UnionColumns(ConcatColumns(SubSeq(dfs, 1, Len(dfs) - 1)), dfs[Len(dfs)].columns)

(* the rows of df laid out on the columns cols; a column df lacks is NaN *)
Reindex(df, cols) ==
    [r \in 1..Len(df.rows) |->
       [c \in 1..Len(cols) |->
          IF \E i \in 1..Len(df.columns) : df.columns[i] = cols[c]
            THEN df.rows[r][CHOOSE i \in 1..Len(df.columns) : df.columns[i] = cols[c]]
            ELSE Missing]]

RECURSIVE ConcatRows(_, _)
ConcatRows(dfs, cols) ==
    IF dfs = <<>> THEN <<>>
    ELSE Reindex(dfs[1], cols) \o ConcatRows(Tail(dfs), cols)

(* pd.concat([item['df'] for item in filtered_data], ignore_index=True) *)
Concat(dfs) ==
    [columns |-> ConcatColumns(dfs), rows |-> ConcatRows(dfs, ConcatColumns(dfs))]

OeeLabels ==
    {Label("Pellet-I"), Label("Pellet-II"), Label("Drier"), Label("Chipper I"),
     Label("Chipper II")}

(* The OEE trend: the rows with Standard < 1 and a known equipment label;    *)
(* any exception (a missing column) is reported as an error.                *)
OeeTrend(df) ==
    IF ~HasCol(df, "Standard") \/ ~HasCol(df, "Particulars")
      THEN [st |-> "error", rows |-> <<>>]
    ELSE
      LET oee_df == SelectSeq(df.rows,
                      LAMBDA r : /\ LessThanOne(At(df, r, "Standard").f)
                                 /\ At(df, r, "Particulars") \in OeeLabels)
      IN IF oee_df = <<>> THEN [st |-> "empty", rows |-> <<>>]
         ELSE IF ~HasCol(df, "Actual") THEN [st |-> "error", rows |-> <<>>]
         ELSE [st |-> "chart", rows |-> oee_df]

(* The production trend: the rows labelled 'Production target' *)
ProductionTrend(df) ==
    IF ~HasCol(df, "Particulars") THEN [st |-> "error", rows |-> <<>>]
    ELSE
      LET prod_df == SelectSeq(df.rows,
                       LAMBDA r : At(df, r, "Particulars") = Label("Production target"))
      IN IF prod_df = <<>> THEN [st |-> "empty", rows |-> <<>>]
         ELSE IF ~HasCol(df, "Actual") \/ ~HasCol(df, "Standard")
           THEN [st |-> "error", rows |-> <<>>]
         ELSE [st |-> "chart", rows |-> prod_df]

NoRange ==
    [shown |-> FALSE, from |-> 0, to |-> 0,
     combined_df |-> [columns |-> <<>>, rows |-> <<>>],
     oee |-> [st |-> "none", rows |-> <<>>], prod |-> [st |-> "none", rows |-> <<>>]]

display_date_range_analysis(filtered_data) ==
    IF filtered_data = <<>> THEN NoRange
    ELSE
      LET combined_df == CleanNumericColumns(
                           Concat([i \in 1..Len(filtered_data) |-> filtered_data[i].df]))
      IN [shown |-> TRUE,
          from  |-> filtered_data[1].date,
          to    |-> filtered_data[Len(filtered_data)].date,
          combined_df |-> combined_df,
          oee   |-> OeeTrend(combined_df),
          prod  |-> ProductionTrend(combined_df)]

-----------------------------------------------------------------------------
(* main, as Streamlit runs it: the script's entry creates the data          *)
(* directory when it is missing (lines 241-246), then main() loads through  *)
(* st.cache_data and runs the analysis the sidebar selects.                 *)

(* A page: which branch of main() ended the request, the dates the sidebar   *)
(* holds, the KPIs of the single-day view and the output of the range view. *)
Page(state, picked, kpi, range) ==
    [state |-> state, picked |-> picked, kpi |-> kpi, range |-> range]

NoData ==
    Page("no_data", <<>>, NoKpi("none"), NoRange)

(* timedelta(days=7): the length of the default range *)
DefaultRangeDays == 7

MinDate(data) ==
    CHOOSE d \in {data[i].date : i \in 1..Len(data)} :
      \A i \in 1..Len(data) : d <= data[i].date

MaxDateOf(data) ==
    CHOOSE d \in {data[i].date : i \in 1..Len(data)} :
      \A i \in 1..Len(data) : d >= data[i].date

(* [item for item in all_data if start_date <= item["date"] <= end_date] *)
FilterRange(data, start_date, end_date) ==
    SelectSeq(data, LAMBDA item : start_date <= item.date /\ item.date <= end_date)

(* st.cache_data: the key is the function and its arguments (data_dir is    *)
(* always "data"), so one entry; a hit returns a copy of the stored value   *)
(* and the body does not run.                                               *)
CachedLoad(store, dir) ==
    IF store # <<>> THEN [hit |-> TRUE, value |-> store[1]]
    ELSE [hit |-> FALSE, value |-> load_and_preprocess_data(dir)]

(* Lines 241-244: os.makedirs('data') when the directory is missing *)
EnsureDir(dir) ==
    IF dir.exists THEN dir ELSE [exists |-> TRUE, listing |-> <<>>]

(* Lines 208-213: the first record of the selected date, if any *)
ShowSingle(data, selected_date, hits) ==
    IF hits = {}
      THEN /\ all_data' = data
           /\ ui' = Page("single_none", <<selected_date>>, NoKpi("none"), NoRange)
      ELSE /\ all_data' = [data EXCEPT ![CHOOSE x \in hits : \A y \in hits : x <= y] =
                             display_single_day_analysis(@).record]
           /\ ui' = Page("single", <<selected_date>>,
                         display_single_day_analysis(
                           data[CHOOSE x \in hits : \A y \in hits : x <= y]).kpi,
                         NoRange)

(* Lines 224-238 *)
ShowRange(data, start_date, end_date, filtered_data) ==
    /\ all_data' = data
    /\ ui' = IF filtered_data = <<>>
               THEN Page("range_none", <<start_date, end_date>>, NoKpi("none"), NoRange)
               ELSE Page("range", <<start_date, end_date>>, NoKpi("none"),
                         display_date_range_analysis(filtered_data))

(* The dates the pickers are set to: the dates of the records, the day      *)
(* after the first, and the start of the default range (line 218).          *)
PickDates(data) ==
    {d \in MinDate(data)..MaxDateOf(data) :
       \/ \E i \in 1..Len(data) : data[i].date = d
       \/ d = MinDate(data) + 1
       \/ d = MaxDateOf(data) - DefaultRangeDays}

(* Lines 199-238 with the pickers set by the user.  kind is the sidebar's    *)
(* analysis type ("range_open" is a range picker holding a start date       *)
(* only); a and b are the dates picked, within [min_date, max_date].        *)
Picked(data) ==
    \E kind \in {"single", "range", "range_open"},
       a \in PickDates(data), b \in PickDates(data) :
      /\ a <= b
      /\ kind # "range" => a = b
      /\ CASE kind = "single" ->
                ShowSingle(data, a, {i \in 1..Len(data) : data[i].date = a})
           [] kind = "range" ->
                ShowRange(data, a, b, FilterRange(data, a, b))
           [] kind = "range_open" ->
                /\ all_data' = data
                /\ ui' = Page("range_invalid", <<a>>, NoKpi("none"), NoRange)

(* Lines 216-222 when the records span fewer than DefaultRangeDays days:    *)
(* the range picker is given the default (max_date - 7 days, max_date),     *)
(* whose start lies before min_value.  A date_input that checks its default *)
(* against min_value raises StreamlitAPIException and the request ends      *)
(* there; one that does not returns the default, and the range is analysed. *)
DefaultOutOfRange(data) ==
    /\ MaxDateOf(data) - DefaultRangeDays < MinDate(data)
    /\ \/ /\ all_data' = data
          /\ ui' = Page("range_exception", <<>>, NoKpi("none"), NoRange)
       \/ ShowRange(data, MaxDateOf(data) - DefaultRangeDays, MaxDateOf(data),
                    FilterRange(data, MaxDateOf(data) - DefaultRangeDays, MaxDateOf(data)))

(* Lines 183-238 *)
Analyse(data) ==
    IF data = <<>>
      THEN /\ all_data' = data
           /\ ui' = NoData
      ELSE Picked(data) \/ DefaultOutOfRange(data)

Serve(got) ==
    /\ cache' = <<got.value>>
    /\ recomputed' = ~got.hit
    /\ loaded' = got.value.result
    /\ Analyse(got.value.result)

(* One request *)
ScriptRun ==
    /\ pc = "app"
    /\ fs' = EnsureDir(fs)
    /\ Serve(CachedLoad(cache, EnsureDir(fs)))
    /\ UNCHANGED <<cell, norm1, norm2, pc>>

-----------------------------------------------------------------------------
(* The inputs drawn *)

RECURSIVE SeqsUpTo(_, _)
SeqsUpTo(S, n) ==
    IF n = 0 THEN {<<>>}
    ELSE LET shorter == SeqsUpTo(S, n - 1)
         IN shorter \cup {Append(q, x) : q \in {t \in shorter : Len(t) = n - 1}, x \in S}

File(name, canOpen, first_line, body) ==
    [name |-> name, canOpen |-> canOpen, first_line |-> first_line, body |-> body]

Ws == Tok("ws")
Comma == Tok("comma")
Text == Tok("text")

DatedName(d) == <<Text, DateTok(d), Tok(".csv")>>
LongDatedName(d) == <<Text, LongDateTok(d), Tok(".csv")>>
PlainName == <<Text, Tok(".csv")>>
HugeName == <<Tok("huge"), Tok(".csv")>>
HugeSpacedName == <<Tok("huge"), Ws, Tok(".csv")>>
NotCsvName(d) == <<DateTok(d), Tok(".txt")>>

Header(d) == <<Tok("Date:"), Ws, DateTok(d), Comma, Text, Ws>>
UpperHeader(d) == <<Text, Comma, Tok("DATE:"), DateTok(d), Ws>>
NoLabelLine == <<Text, Comma, Text, Ws>>
EmptyValueLine == <<Tok("Date:"), Ws>>
CommaValueLine == <<Tok("date:"), Comma, DateTok(1), Ws>>
TextValueLine == <<Tok("Date:"), Ws, Text, Ws>>
DateAndTextLine(d) == <<Tok("Date:"), Ws, DateTok(d), Ws, Text, Ws>>
HugeValueLine == <<Tok("Date:"), Ws, Tok("huge"), Ws>>
TwoDatesLine(d, e) == <<Tok("Date:"), Ws, DateTok(d), Ws, DateTok(e), Ws>>
LongHeader(d) == <<Tok("Date:"), Ws, LongDateTok(d), Comma, Text, Ws>>
TwoLongDatesLine(d, e) == <<Tok("Date:"), Ws, LongDateTok(d), Ws, LongDateTok(e), Ws>>

Txt_12_5_TPD == <<"1", "2", ".", "5", " ", "T", "P", "D">>
Txt_500 == <<"5", "0", "0">>
Txt_TBD == <<"T", "B", "D">>
Txt_0_85 == <<"0", ".", "8", "5">>
Txt_0_9 == <<"0", ".", "9">>

F(m, e) == MkFloat(FALSE, m, e)

KpiColumns ==
    <<Col("Particulars"), <<Ws, Tok("Standard")>>, <<Tok("Actual"), Ws>>>>

BadBody ==
    [ok |-> FALSE, columns |-> <<>>, rows |-> <<>>]

(* a report of one day: the production row, both OEE rows and a throughput row *)
KpiBody ==
    [ok |-> TRUE, columns |-> KpiColumns,
     rows |-> << <<Label("Production target"), Str(Txt_500), Num(F(5234, -1))>>,
                 <<Label("Pellet-I"), Str(Txt_12_5_TPD), Num(F(11, 0))>>,
                 <<Label("Pellet-I"), Str(Txt_0_85), Num(F(9, -1))>>,
                 <<Label("Pellet-II"), Str(Txt_0_85), Num(F(8, -1))>> >>]

(* a table with other columns, one of them named Date *)
OtherBody ==
    [ok |-> TRUE, columns |-> <<Col("Date"), Col("Particulars"), Col("Actual")>>,
     rows |-> << <<Str(Txt_TBD), Label("Drier"), Num(F(7, -1))>> >>]

EmptyBody ==
    [ok |-> TRUE, columns |-> KpiColumns, rows |-> <<>>]

(* the ordinary reports: dated by the file name or by the first line *)
Reports ==
    {File(DatedName(d), TRUE, NoLabelLine, OtherBody) : d \in 1..MaxDate}
    \cup {File(DatedName(1), TRUE, Header(d), OtherBody) : d \in 1..MaxDate}

(* the files out of the ordinary *)
OddFiles ==
    {File(PlainName, TRUE, UpperHeader(MaxDate), EmptyBody),
     File(LongDatedName(1), TRUE, NoLabelLine, OtherBody),
     File(LongDatedName(1), TRUE, LongHeader(MaxDate), OtherBody),
     File(DatedName(1), TRUE, TwoLongDatesLine(MaxDate, 1), OtherBody),
     File(DatedName(1), TRUE, TextValueLine, OtherBody),
     File(DatedName(MaxDate), TRUE, EmptyValueLine, OtherBody),
     File(DatedName(MaxDate), TRUE, CommaValueLine, OtherBody),
     File(PlainName, TRUE, DateAndTextLine(1), OtherBody),
     File(DatedName(1), TRUE, HugeValueLine, OtherBody),
     File(HugeName, TRUE, NoLabelLine, OtherBody),
     File(HugeSpacedName, TRUE, NoLabelLine, OtherBody),
     File(DatedName(1), TRUE, TwoDatesLine(MaxDate, 1), OtherBody),
     File(DatedName(1), FALSE, Header(1), OtherBody),
     File(DatedName(1), TRUE, Header(1), BadBody),
     File(NotCsvName(1), TRUE, Header(1), OtherBody)}

Insert(q, i, x) ==
    SubSeq(q, 1, i - 1) \o <<x>> \o SubSeq(q, i, Len(q))

(* the directories the loader is run on: none, one of up to MaxFiles        *)
(* ordinary reports in any order, or one of fewer of them with a file out   *)
(* of the ordinary at any place among them                                  *)
IsLoadDir(dir) ==
    \/ dir = [exists |-> FALSE, listing |-> <<>>]
    \/ \E q \in SeqsUpTo(Reports, MaxFiles) : dir = [exists |-> TRUE, listing |-> q]
    \/ \E q \in SeqsUpTo(Reports, MaxFiles - 1) : \E i \in 1..(Len(q) + 1) : \E x \in OddFiles :
          dir = [exists |-> TRUE, listing |-> Insert(q, i, x)]

(* the files a session's directory is made of, in the order os.listdir      *)
(* gives them: the daily reports of day 2 and day 1, and a table dated by  *)
(* its first line a week after the second report                           *)
DailyReport(d) ==
    File(DatedName(d), TRUE, NoLabelLine, KpiBody)

AppListing ==
    <<DailyReport(2), DailyReport(1),
      File(DatedName(1), TRUE, Header(2 + DefaultRangeDays), OtherBody)>>

RECURSIVE Pick(_, _, _)
Pick(list, keep, i) ==
    IF i > Len(list) THEN <<>>
    ELSE (IF i \in keep THEN <<list[i]>> ELSE <<>>) \o Pick(list, keep, i + 1)

AppDirs ==
    {[exists |-> FALSE, listing |-> <<>>]}
    \cup {[exists |-> TRUE, listing |-> Pick(AppListing, keep, 1)] :
            keep \in {k \in SUBSET (1..Len(AppListing)) : Cardinality(k) <= MaxDirFiles}}

(* tables for the single-day analysis: rows drawn from RowPool, and the     *)
(* same tables with one of the three columns left out                       *)
RowPool ==
    { <<Label("Production target"), Num(F(500, 0)), Num(F(5234, -1))>>,
      <<Label("Production target"), Num(F(500, 0)), Str(Txt_TBD)>>,
      <<Label("Production target"), Missing, Num(F(5234, -1))>>,
      <<Label("Pellet-I"), Str(Txt_0_85), Str(Txt_0_9)>>,
      <<Label("Pellet-I"), Str(Txt_12_5_TPD), Num(F(11, 0))>>,
      <<Label("Pellet-I"), Num(F(85, -2)), Missing>>,
      <<Label("Pellet-II"), Num(F(85, -2)), Num(F(8, -1))>>,
      <<Label("Pellet-II"), Str(Txt_TBD), Num(F(8, -1))>> }

Without(q, i) ==
    SubSeq(q, 1, i - 1) \o SubSeq(q, i + 1, Len(q))

DropColumn(df, i) ==
    [columns |-> Without(df.columns, i),
     rows    |-> [r \in 1..Len(df.rows) |-> Without(df.rows[r], i)]]

DayTables(n) ==
    LET full == {[columns |-> <<Col("Particulars"), Col("Standard"), Col("Actual")>>,
                  rows |-> rows] : rows \in SeqsUpTo(RowPool, n)}
    IN full \cup {DropColumn(df, i) : df \in full, i \in 1..3}

DayRecords(n) ==
    {[date |-> 1, df |-> SetColumn(df, "Date", DateCell(1)), file |-> 1] : df \in DayTables(n)}

(* cell values for the clean-up: short texts, floats, and the spec's examples *)
NormAlphabet ==
    {"0", "1", ".", "T"}

NormInputs(n) ==
    {Str(t) : t \in SeqsUpTo(NormAlphabet, n)}
    \cup {Str(Txt_12_5_TPD), Str(<<"1", "2", ".", "5">>), Str(<<"N", "/", "A">>), Missing}
    \cup {Num(MkFloat(neg, m, e)) : neg \in BOOLEAN, m \in 0..MaxMant, e \in (-MaxExp)..MaxExp}

-----------------------------------------------------------------------------
(* Specifications *)

Blank == <<>>

(* SpecLoad: one run of the loader's body on a directory *)
InitLoad ==
    /\ IsLoadDir(fs)
    /\ cache = Blank /\ all_data = Blank /\ loaded = Blank /\ recomputed = FALSE
    /\ ui = Blank /\ cell = Blank /\ norm1 = Blank /\ norm2 = Blank
    /\ pc = "load"

Load ==
    /\ pc = "load"
    /\ LET got == load_and_preprocess_data(fs)
       IN /\ loaded' = got.result
          /\ all_data' = got.result
          /\ ui' = got.msgs
    /\ recomputed' = TRUE
    /\ pc' = "loaded"
    /\ UNCHANGED <<fs, cache, cell, norm1, norm2>>

NextLoad == Load

SpecLoad == InitLoad /\ [][NextLoad]_vars

(* SpecDay: the single-day analysis of one loaded record *)
InitDay ==
    /\ all_data \in {<<rec>> : rec \in DayRecords(MaxRows)}
    /\ loaded = all_data
    /\ fs = Blank /\ cache = Blank /\ recomputed = FALSE
    /\ ui = Blank /\ cell = Blank /\ norm1 = Blank /\ norm2 = Blank
    /\ pc = "day"

SingleDay ==
    /\ pc = "day"
    /\ LET day == display_single_day_analysis(all_data[1])
       IN /\ all_data' = <<day.record>>
          /\ ui' = Page("single", <<1>>, day.kpi, NoRange)
    /\ pc' = "shown"
    /\ UNCHANGED <<fs, cache, loaded, recomputed, cell, norm1, norm2>>

NextDay == SingleDay

SpecDay == InitDay /\ [][NextDay]_vars

(* SpecNorm: the numeric clean-up applied to a value, then to its result *)
InitNorm ==
    /\ cell \in NormInputs(MaxLen)
    /\ norm1 = Blank /\ norm2 = Blank
    /\ fs = Blank /\ cache = Blank /\ all_data = Blank /\ loaded = Blank
    /\ recomputed = FALSE /\ ui = Blank
    /\ pc = "raw"

Clean ==
    /\ pc = "raw"
    /\ norm1' = CleanNumeric(cell)
    /\ pc' = "clean"
    /\ UNCHANGED <<fs, cache, all_data, loaded, recomputed, ui, cell, norm2>>

CleanAgain ==
    /\ pc = "clean"
    /\ norm2' = CleanNumeric(norm1)
    /\ pc' = "clean2"
    /\ UNCHANGED <<fs, cache, all_data, loaded, recomputed, ui, cell, norm1>>

NextNorm == Clean \/ CleanAgain

SpecNorm == InitNorm /\ [][NextNorm]_vars

(* Spec: a session of requests, with the directory changing between them *)
Init ==
    /\ fs \in AppDirs
    /\ cache = <<>>
    /\ all_data = <<>> /\ loaded = <<>> /\ recomputed = FALSE
    /\ ui = Page("start", <<>>, NoKpi("none"), NoRange)
    /\ cell = Blank /\ norm1 = Blank /\ norm2 = Blank
    /\ pc = "app"

(* files are added, removed or rewritten between two requests *)
FileChange ==
    /\ pc = "app"
    /\ fs' \in AppDirs \ {fs}
    /\ UNCHANGED <<cache, all_data, loaded, recomputed, ui, cell, norm1, norm2, pc>>

Next == ScriptRun \/ FileChange

Spec == Init /\ [][Next]_vars

-----------------------------------------------------------------------------
(* Properties *)

CsvFiles == SelectSeq(fs.listing, IsCsv)

(* the places in the collection c of the records made from file idx *)
RecordsOf(c, idx) == {i \in 1..Len(c) : c[i].file = idx}

(* the two dates of a file, as the spec resolves them *)
FirstLineDate(f) == ContentDate(DateSearch(f.first_line))
FileNameDate(f) == ParserParseFuzzy(f.name)
Readable(f) == f.canOpen /\ f.body.ok

(* C1: the collection the loader returns is ascending by date; records of   *)
(* equal date stand in the order their files were enumerated; every file   *)
(* the loop makes a record of has exactly that record in the collection    *)
(* (none is dropped or merged).                                             *)
C1_SortedStableComplete ==
    pc = "loaded" =>
      /\ \A i \in 1..(Len(loaded) - 1) : loaded[i].date <= loaded[i + 1].date
      /\ \A i \in 1..Len(loaded) : \A j \in 1..Len(loaded) :
           (i < j /\ loaded[i].date = loaded[j].date) => loaded[i].file < loaded[j].file
      /\ \A idx \in 1..Len(CsvFiles) :
           LoadFile(CsvFiles[idx], idx).recs # <<>> =>
             Cardinality({i \in 1..Len(loaded) :
                            loaded[i] = LoadFile(CsvFiles[idx], idx).recs[1]}) = 1

(* C1 witness: a load of three records where two share a date and the sort  *)
(* moved a later file before an earlier one.                                *)
C1_Witness ==
    /\ pc = "loaded"
    /\ Len(loaded) = 3
    /\ \E i \in 1..2 : loaded[i].date = loaded[i + 1].date
    /\ \E i \in 1..2 : loaded[i].file > loaded[i + 1].file

(* C2: a readable file is given the date of its first line when that parses, *)
(* and otherwise (label absent, or the parse of its value failed for any    *)
(* reason) the date of its file name when that parses.                      *)
C2_DatePrecedence ==
    pc = "loaded" =>
      \A idx \in 1..Len(CsvFiles) :
        LET f == CsvFiles[idx]
        IN Readable(f) =>
             /\ FirstLineDate(f).st = "ok" =>
                  \E i \in RecordsOf(loaded, idx) : loaded[i].date = FirstLineDate(f).d
             /\ (FirstLineDate(f).st # "ok" /\ FileNameDate(f).st = "ok") =>
                  \E i \in RecordsOf(loaded, idx) : loaded[i].date = FileNameDate(f).d

(* C3: a file with neither date contributes no record, and every file with  *)
(* a date (first line or file name) and readable content contributes        *)
(* exactly one record, whatever the other files of the directory do.        *)
C3_FailuresAreIsolated ==
    pc = "loaded" =>
      \A idx \in 1..Len(CsvFiles) :
        LET f == CsvFiles[idx]
        IN /\ (FirstLineDate(f).st # "ok" /\ FileNameDate(f).st # "ok") =>
                RecordsOf(loaded, idx) = {}
           /\ (Readable(f) /\ (FirstLineDate(f).st = "ok" \/ FileNameDate(f).st = "ok")) =>
                Cardinality(RecordsOf(loaded, idx)) = 1

(* C4: cleaning a cleaned value changes nothing *)
C4_CleanIsIdempotent ==
    pc = "clean2" => norm2 = norm1

(* the rows the single-day summary needs, in the cleaned table *)
HasRow(df, name, oee) ==
    /\ HasCol(df, "Particulars")
    /\ \E r \in 1..Len(df.rows) :
         /\ At(df, df.rows[r], "Particulars") = Label(name)
         /\ oee => (HasCol(df, "Standard") /\ LessThanOne(At(df, df.rows[r], "Standard").f))

RequiredRowsPresent(df) ==
    /\ HasRow(df, "Production target", FALSE)
    /\ HasRow(df, "Pellet-I", TRUE)
    /\ HasRow(df, "Pellet-II", TRUE)

(* C5: the summary is all or nothing: with a required row absent it is      *)
(* reported as incomplete, and metrics are shown only with all rows present *)
C5_AllOrNothing ==
    pc = "shown" =>
      /\ ~RequiredRowsPresent(all_data[1].df) => ui.kpi.kind = "incomplete"
      /\ ui.kpi.kind = "metrics" => RequiredRowsPresent(all_data[1].df)

(* C6: no metric is shown that was computed from a missing value *)
C6_NoMetricFromMissing ==
    (pc = "shown" /\ ui.kpi.kind = "metrics") =>
      /\ ui.kpi.total # <<"n", "a", "n">>
      /\ ui.kpi.delta # <<"n", "a", "n">>
      /\ ui.kpi.oee_I # <<"n", "a", "n">>
      /\ ui.kpi.oee_II # <<"n", "a", "n">>

(* C7: every request is served what a fresh load of the directory as it is  *)
(* at the request would produce.                                            *)
C7_ServedFresh ==
    [][ScriptRun => loaded' = load_and_preprocess_data(fs').result]_vars

(* C8: after a request, every table of the collection is as it was loaded *)
C8_LoadedTablesUnchanged ==
    all_data = loaded

(* C9: a request on a missing or empty directory is served the empty        *)
(* collection and ends in the "no data" state.                              *)
C9_EmptyDirectoryNoData ==
    [][(ScriptRun /\ (~fs.exists \/ fs.listing = <<>>)) =>
         (loaded' = <<>> /\ ui'.state = "no_data")]_vars

(* the date and the label of every row of the records, in order *)
RECURSIVE RowTags(_)
RowTags(recs) ==
    IF recs = <<>> THEN <<>>
    ELSE [r \in 1..Len(recs[1].df.rows) |->
            [date  |-> recs[1].date,
             label |-> At(recs[1].df, recs[1].df.rows[r], "Particulars")]]
         \o RowTags(Tail(recs))

PickedRecords ==
    SelectSeq(loaded, LAMBDA rec : ui.picked[1] <= rec.date /\ rec.date <= ui.picked[2])

(* C10: the combined table of a range holds one row for every row of the    *)
(* records whose date lies in the range, in the order of the collection,   *)
(* each with the label it had and with the date of its record as its Date. *)
C10_RangeUnionKeepsDates ==
    ui.state = "range" =>
      LET combined == ui.range.combined_df
          tags     == RowTags(PickedRecords)
      IN /\ Len(combined.rows) = Len(tags)
         /\ \A k \in 1..Len(tags) :
              /\ At(combined, combined.rows[k], "Date") = DateCell(tags[k].date)
              /\ At(combined, combined.rows[k], "Particulars") = tags[k].label
         /\ \A k \in 1..(Len(tags) - 1) : tags[k].date <= tags[k + 1].date

(* C10 witness: a range over two records a week or more apart (so that the  *)
(* default range is one the picker accepts), one of them a table that came  *)
(* with a Date column of its own.                                           *)
C10_Witness ==
    /\ ui.state = "range"
    /\ Len(PickedRecords) = 2
    /\ PickedRecords[1].date + DefaultRangeDays <= PickedRecords[2].date
    /\ \E i \in 1..2 : Len(PickedRecords[i].df.columns) = 3
    /\ Len(ui.range.combined_df.rows) = 5

=============================================================================
